---- MODULE Spec2Model ----
(***************************************************************************)
(* Model of the multi-tenant RAG memory store                              *)
(* (backend/app/vector_store.py, class AgentVectorStore).                  *)
(*                                                                         *)
(* The three public methods are coroutines that the FastAPI routes of      *)
(* rag_routes.py await on one asyncio event loop.  None of them contains   *)
(* an await, so once scheduled a call runs to its return statement:        *)
(* concurrent requests are all the interleavings of whole calls, and each  *)
(* action below is one whole call.                                         *)
(*                                                                         *)
(* Chunk texts and query texts are small naturals standing for strings.    *)
(***************************************************************************)
EXTENDS Integers, Sequences, FiniteSets, TLC

\* ---------------------------------------------------------------- bounds
MaxText == 3        \* texts are 1..MaxText
MaxChunks == 1      \* chunks of one report
MaxDocs == 2        \* documents ever stored
MaxK == 2           \* largest k of a query
MaxStored == 2      \* documents per collection when a query is studied alone
HashSpace == 2      \* number of values of hash(), scaled down from 2^64
MaxWindows == 2     \* windows of one report when ingestion is studied alone
MaxHeld == 1        \* documents per collection when one call is studied alone

Texts == 1..MaxText
\* a window of a report: a text, or Blank when it holds only whitespace
Blank == 0
Windows == {Blank} \cup Texts
Ks == (-1)..MaxK
\* query texts: the two ends of the text range, which embed differently
Queries == {1, MaxText}
\* "" is the malformed tenancy key
Agents == {"", "a", "b"}
\* the agent_id that the shared-only route passes to query_agent_memory
Placeholder == "__shared_only__"
Contents == UNION {[1..n -> Windows] : n \in 0..MaxChunks}
\* the longer reports, ingested when ingestion is studied alone
LongContents == UNION {[1..n -> Windows] : n \in 0..MaxWindows}
ReportIds == {"r1", "r2"}
\* the agent whose reports they are
Authors == {"a"}
\* the metadata a caller of ingest_report may pass: none, or a key that is
\* also a field of a chunk
Metadatas == {{}, {<<"agent_id", "b">>}}
\* the external steps of a call that can fail: the embedding function, and
\* the index backend when it opens a collection, writes to it, persists it
\* or searches it
Failures == {"embedding", "open", "write", "persist", "search"}

VARIABLES
    cache,      \* self._collection_cache: collection name -> handle
    db,         \* the Chroma database under persist_directory: name -> documents
    paths,      \* entries of persist_directory on disk
    live,       \* per collection name, Chroma objects constructed for it
                \* since the name was last evicted from the cache
    ids,        \* number of document ids generated so far
    failing,    \* the external step that fails at present, or "none"
    last,       \* the last call and what it returned
    loop,       \* the request that the event loop's thread is executing, or Idle
    waiting,    \* the requests accepted and not yet started
    _enabled,   \* CacheManager._enabled; the client is set exactly when it is TRUE
    redis_db,   \* the Redis server's data: key -> stored text
    redis_up    \* whether the Redis server answers

vars == <<cache, db, paths, live, ids, failing, last,
          loop, waiting, _enabled, redis_db, redis_up>>

\* what lies outside the vector store: the event loop and the cache manager
Idle == [op |-> "idle", agent_id |-> "", text |-> 0, k |-> 0, shared |-> FALSE]
loop_vars == <<loop, waiting>>
manager_vars == <<_enabled, redis_db, redis_up>>
Elsewhere ==
    /\ loop = Idle
    /\ waiting = {}
    /\ _enabled = FALSE
    /\ redis_db = <<>>
    /\ redis_up = TRUE

\* ------------------------------------------------ external capabilities
\* SentenceTransformerEmbeddings.embed_query: deterministic, not injective
Embed(t) == (t + 1) \div 2

\* Chroma's distance between the embeddings of a query and of a chunk
Dist(q, t) == (Embed(q) - Embed(t)) * (Embed(q) - Embed(t))

\* Python's hash() of a str: a fixed-width value, so not injective
hash(t) == t % HashSpace

\* RecursiveCharacterTextSplitter.split_text; a report's content is given
\* as the sequence of its windows.  The splitter strips each piece and
\* drops the pieces that are empty after stripping
NotBlank(w) == w # Blank
split_text(report_content) == SelectSeq(report_content, NotBlank)

\* what a persistent Chroma client keeps in persist_directory
ChromaFiles == {"chroma.sqlite3"}

\* ------------------------------------------------------- collection names
SharedName == "shared_organizational_knowledge"
ValueError == "ValueError"

\* a naming that drops the agent identifier
_get_collection_name_no_agent(agent_id, is_shared) ==
    IF is_shared THEN SharedName
    ELSE IF agent_id # "" THEN "agent_private_memory_"
    ELSE ValueError

\* a naming that looks at the agent identifier before the shared flag
_get_collection_name_agent_first(agent_id, is_shared) ==
    IF agent_id # "" THEN "agent_private_memory_" \o agent_id
    ELSE IF is_shared THEN SharedName
    ELSE ValueError

_get_collection_name(agent_id, is_shared) ==
    IF is_shared THEN SharedName
    ELSE IF agent_id # "" THEN "agent_private_memory_" \o agent_id
    ELSE ValueError

Names == {_get_collection_name(a, s) : a \in Agents \cup {Placeholder}, s \in BOOLEAN}
             \ {ValueError}

\* ---------------------------------------------------------------- store
\* the store as a record, so that the helpers can be composed
Store == [cache |-> cache, db |-> db, paths |-> paths, live |-> live]

\* dict insertion / deletion
Put(f, key, v) == [x \in DOMAIN f \cup {key} |-> IF x = key THEN v ELSE f[x]]
Del(f, key) == [x \in DOMAIN f \ {key} |-> f[x]]

\* a Chroma object: a handle on the collection of that name
Handle(collection_name) == [collection_name |-> collection_name]

\* a Chroma that starts every collection it opens from nothing
Chroma_recreate(s, collection_name) ==
    [s EXCEPT !.db = Put(s.db, collection_name, <<>>),
              !.paths = s.paths \cup ChromaFiles,
              !.live = [s.live EXCEPT ![collection_name] = @ + 1]]

\* Chroma(collection_name=..., persist_directory=...): opens the collection
\* of that name in the database, creating it when absent
Chroma(s, collection_name) ==
    [s EXCEPT !.db = IF collection_name \in DOMAIN s.db THEN s.db
                     ELSE Put(s.db, collection_name, <<>>),
              !.paths = s.paths \cup ChromaFiles,
              !.live = [s.live EXCEPT ![collection_name] = @ + 1]]

\* a registry that constructs a handle without looking in the cache
_get_or_create_collection_uncached(s, collection_name) ==
    LET c == Chroma(s, collection_name)
    IN  [c EXCEPT !.cache = Put(c.cache, collection_name, Handle(collection_name))]

_get_or_create_collection(s, collection_name) ==
    IF collection_name \in DOMAIN s.cache THEN s
    ELSE LET c == Chroma(s, collection_name)
         IN  [c EXCEPT !.cache = Put(c.cache, collection_name, Handle(collection_name))]

\* a Chroma that accepts every collection name
check_index_name_any(collection_name) == TRUE

\* Chroma's check of a collection name, made when a collection is opened: a
\* name must end with a letter or a digit.  Of the names of this model, only
\* the private name of Placeholder, which ends with "_", is refused
check_index_name(collection_name) ==
    collection_name # "agent_private_memory_" \o Placeholder

\* _get_or_create_collection raises: the name is not cached, and Chroma
\* refuses the name or the index backend cannot open the collection
open_raises(s, collection_name) ==
    /\ failing = "open" \/ ~check_index_name(collection_name)
    /\ collection_name \notin DOMAIN s.cache

\* a method without its try/except: the exception reaches the caller
Status_propagated(raised) == IF raised THEN "raised" ELSE "success"

\* the try/except Exception around the body of each public method: an
\* exception raised in the body becomes a result of status error
Status(raised) == IF raised THEN "error" ELSE "success"

Init ==
    /\ cache = <<>>
    /\ db = <<>>
    /\ paths = {}
    /\ live = [n \in Names |-> 0]
    /\ ids = 0
    /\ failing = "none"
    /\ last = [op |-> "init"]
    /\ Elsewhere

\* ------------------------------------------------------------ ingestion
\* the caller's metadata is a set of <<key, value>> pairs, one per key.
\* {**fields, **metadata}: a key of metadata replaces the field of that name
Merged(metadata, key, field) ==
    IF \E pair \in metadata : pair[1] = key
    THEN (CHOOSE pair \in metadata : pair[1] = key)[2]
    ELSE field

\* Documents whose ids are the chunk positions
Documents_positional_ids(agent_id, report_id, chunks, is_shared_knowledge, metadata) ==
    [i \in 1..Len(chunks) |->
        [id |-> i,
         content |-> chunks[i],
         agent_id |-> Merged(metadata, "agent_id", agent_id),
         report_id |-> Merged(metadata, "report_id", report_id),
         chunk_index |-> Merged(metadata, "chunk_index", i - 1),
         total_chunks |-> Merged(metadata, "total_chunks", Len(chunks)),
         is_shared_knowledge |-> Merged(metadata, "is_shared_knowledge", is_shared_knowledge)]]

\* the Documents that ingest_report builds, with the ids it generates
Documents(agent_id, report_id, chunks, is_shared_knowledge, metadata) ==
    [i \in 1..Len(chunks) |->
        [id |-> ids + i,
         content |-> chunks[i],
         agent_id |-> Merged(metadata, "agent_id", agent_id),
         report_id |-> Merged(metadata, "report_id", report_id),
         chunk_index |-> Merged(metadata, "chunk_index", i - 1),
         total_chunks |-> Merged(metadata, "total_chunks", Len(chunks)),
         is_shared_knowledge |-> Merged(metadata, "is_shared_knowledge", is_shared_knowledge)]]

\* an add_documents that writes the first document only
add_documents_first_only(s, collection_name, documents) ==
    [s EXCEPT !.db = [s.db EXCEPT ![collection_name] =
                         @ \o IF documents = <<>> THEN <<>> ELSE <<documents[1]>>]]

\* vectorstore.add_documents(documents, ids) on the collection of that name
add_documents(s, collection_name, documents) ==
    [s EXCEPT !.db = [s.db EXCEPT ![collection_name] = @ \o documents]]

\* how add_documents can end: it embeds the documents, then upserts them.
\* A failing embedding raises before anything is written; a failing write
\* raises with the documents written or not; an upsert of no documents is
\* refused by some Chroma versions
Upserts(documents) ==
    IF failing = "embedding" THEN {[stored |-> FALSE, raised |-> TRUE]}
    ELSE IF failing = "write" THEN {[stored |-> b, raised |-> TRUE] : b \in BOOLEAN}
    ELSE IF documents = <<>> THEN {[stored |-> b, raised |-> ~b] : b \in BOOLEAN}
    ELSE {[stored |-> TRUE, raised |-> FALSE]}

\* a persist() whose failure is swallowed
persist_raises_never == FALSE

\* vectorstore.persist() raises
persist_raises == failing = "persist"

ingest_report(agent_id, report_id, report_content, is_shared_knowledge, metadata) ==
    LET chunks == split_text(report_content)
        documents == Documents(agent_id, report_id, chunks, is_shared_knowledge, metadata)
        collection_name == _get_collection_name(agent_id, is_shared_knowledge)
        s1 == _get_or_create_collection(Store, collection_name)
        s2 == add_documents(s1, collection_name, documents)
    IN  IF collection_name = ValueError \/ open_raises(Store, collection_name)
        THEN /\ last' = [op |-> "ingest", status |-> Status(TRUE), agent_id |-> agent_id,
                         report_id |-> report_id,
                         is_shared_knowledge |-> is_shared_knowledge,
                         windows |-> Len(report_content),
                         chunks_ingested |-> 0, embed_calls |-> 0,
                         doc_ids |-> {}, obtained |-> {}]
             /\ UNCHANGED <<cache, db, paths, live, ids, failing>>
        ELSE /\ ids + Len(documents) <= MaxDocs
             /\ \E upsert \in Upserts(documents) :
                  LET raised == upsert.raised \/ persist_raises
                  IN  /\ cache' = s1.cache
                      /\ paths' = s1.paths
                      /\ live' = s1.live
                      /\ db' = IF upsert.stored THEN s2.db ELSE s1.db
                      /\ ids' = ids + Len(documents)
                      /\ last' = [op |-> "ingest",
                                  status |-> Status(raised),
                                  agent_id |-> agent_id,
                                  report_id |-> report_id,
                                  is_shared_knowledge |-> is_shared_knowledge,
                                  windows |-> Len(report_content),
                                  chunks_ingested |-> IF raised THEN 0 ELSE Len(documents),
                                  embed_calls |-> 1,
                                  doc_ids |-> {d.id : d \in {documents[i] : i \in 1..Len(documents)}},
                                  obtained |-> {<<collection_name, s1.cache[collection_name]>>}]
             /\ UNCHANGED failing

\* the reports of the whole store's life: one window, one report id, and
\* the metadata of the routes, whose keys are none of the fields of a chunk
Ingest ==
    /\ \E agent_id \in Agents, report_content \in Contents, is_shared_knowledge \in BOOLEAN :
         ingest_report(agent_id, "r1", report_content, is_shared_knowledge, {})
    /\ UNCHANGED <<loop_vars, manager_vars>>

\* the reports of ingestion studied alone: several windows, several ids
IngestReport ==
    /\ \E agent_id \in Authors, report_id \in ReportIds, report_content \in LongContents,
          is_shared_knowledge \in BOOLEAN, metadata \in Metadatas :
         ingest_report(agent_id, report_id, report_content, is_shared_knowledge, metadata)
    /\ UNCHANGED <<loop_vars, manager_vars>>

\* ------------------------------------------------------------- deletion
\* a deletion that removes the name from the cache without looking for it
delete_agent_memory_unchecked(agent_id) ==
    LET collection_name == _get_collection_name(agent_id, FALSE)
        raised == collection_name = ValueError \/ collection_name \notin DOMAIN cache
    IN  IF raised
        THEN /\ last' = [op |-> "delete", status |-> Status(TRUE), agent_id |-> agent_id]
             /\ UNCHANGED <<cache, db, paths, live, ids, failing>>
        ELSE /\ cache' = Del(cache, collection_name)
             /\ live' = [live EXCEPT ![collection_name] = 0]
             /\ paths' = IF collection_name \in paths
                         THEN paths \ {collection_name} ELSE paths
             /\ last' = [op |-> "delete", status |-> Status(FALSE), agent_id |-> agent_id]
             /\ UNCHANGED <<db, ids, failing>>

\* a deletion that empties the whole cache
delete_agent_memory_clear_cache(agent_id) ==
    LET collection_name == _get_collection_name(agent_id, FALSE)
    IN  IF collection_name = ValueError
        THEN /\ last' = [op |-> "delete", status |-> Status(TRUE), agent_id |-> agent_id]
             /\ UNCHANGED <<cache, db, paths, live, ids, failing>>
        ELSE /\ cache' = <<>>
             /\ live' = [n \in Names |-> 0]
             /\ paths' = IF collection_name \in paths
                         THEN paths \ {collection_name} ELSE paths
             /\ last' = [op |-> "delete", status |-> Status(FALSE), agent_id |-> agent_id]
             /\ UNCHANGED <<db, ids, failing>>

\* a deletion that drops the handle of every private collection
delete_agent_memory_all_private(agent_id) ==
    LET collection_name == _get_collection_name(agent_id, FALSE)
        private == {n \in DOMAIN cache : n # SharedName}
    IN  IF collection_name = ValueError
        THEN /\ last' = [op |-> "delete", status |-> Status(TRUE), agent_id |-> agent_id]
             /\ UNCHANGED <<cache, db, paths, live, ids, failing>>
        ELSE /\ cache' = [n \in DOMAIN cache \ private |-> cache[n]]
             /\ live' = [n \in Names |-> IF n \in private THEN 0 ELSE live[n]]
             /\ paths' = IF collection_name \in paths
                         THEN paths \ {collection_name} ELSE paths
             /\ last' = [op |-> "delete", status |-> Status(FALSE), agent_id |-> agent_id]
             /\ UNCHANGED <<db, ids, failing>>

delete_agent_memory(agent_id) ==
    LET collection_name == _get_collection_name(agent_id, FALSE)
    IN  IF collection_name = ValueError
        THEN /\ last' = [op |-> "delete", status |-> Status(TRUE), agent_id |-> agent_id]
             /\ UNCHANGED <<cache, db, paths, live, ids, failing>>
        ELSE /\ cache' = Del(cache, collection_name)
             /\ live' = IF collection_name \in DOMAIN cache
                        THEN [live EXCEPT ![collection_name] = 0] ELSE live
             \* shutil.rmtree(persist_directory/collection_name) when it exists;
             \* the documents are in Chroma's own files, not under that path
             /\ paths' = IF collection_name \in paths
                         THEN paths \ {collection_name} ELSE paths
             /\ last' = [op |-> "delete", status |-> Status(FALSE), agent_id |-> agent_id]
             /\ UNCHANGED <<db, ids, failing>>

Delete ==
    /\ \E agent_id \in Agents : delete_agent_memory(agent_id)
    /\ UNCHANGED <<loop_vars, manager_vars>>


\* ---------------------------------------------------------------- query
Min(a, b) == IF a <= b THEN a ELSE b
Max(a, b) == IF a >= b THEN a ELSE b

\* the orders in which Chroma may rank the documents of a collection for a
\* query: ascending distance, documents at equal distance in any order
Rankings(docs, query) ==
    LET n == Len(docs)
        perms == {p \in [1..n -> 1..n] : \A i, j \in 1..n : i # j => p[i] # p[j]}
        sorted == {p \in perms : \A i \in 1..(n - 1) :
                      Dist(query, docs[p[i]].content) <= Dist(query, docs[p[i + 1]].content)}
    IN  {[i \in 1..n |-> docs[p[i]]] : p \in sorted}

\* vectorstore.similarity_search_with_score(query, k): the possible answers.
\* It embeds the query and then searches the collection; when either step
\* fails, or when Chroma rejects k <= 0, it raises, which the caller's
\* except clause turns into no results.  k above the collection's size is
\* lowered
similarity_search_with_score(docs, query, k) ==
    IF k <= 0 \/ failing \in {"embedding", "search"} THEN {<<>>}
    ELSE {SubSeq(r, 1, Min(k, Len(r))) : r \in Rankings(docs, query)}

\* the result dicts built from one collection's answer
Tagged(found, query, source) ==
    [i \in 1..Len(found) |->
        [content |-> found[i].content,
         doc |-> found[i],
         score |-> Dist(query, found[i].content),
         source |-> source]]

\* list.sort(key=score): stable, ascending
RECURSIVE Insert(_, _)
Insert(sorted, r) ==
    IF sorted = <<>> THEN <<r>>
    ELSE IF sorted[Len(sorted)].score <= r.score THEN Append(sorted, r)
    ELSE Append(Insert(SubSeq(sorted, 1, Len(sorted) - 1), r), sorted[Len(sorted)])

\* a merge that leaves the private results before the shared ones
Unsorted(rs) == rs

RECURSIVE SortByScore(_)
SortByScore(rs) ==
    IF rs = <<>> THEN <<>>
    ELSE Insert(SortByScore(SubSeq(rs, 1, Len(rs) - 1)), rs[Len(rs)])

\* the deduplication loop: keeps a result when the hash of its content is
\* not yet in seen_content
RECURSIVE Deduplicate(_, _)
Deduplicate(rs, seen_content) ==
    IF rs = <<>> THEN <<>>
    ELSE LET content_hash == hash(rs[1].content)
         IN  IF content_hash \notin seen_content
             THEN <<rs[1]>> \o Deduplicate(Tail(rs), seen_content \cup {content_hash})
             ELSE Deduplicate(Tail(rs), seen_content)

\* Python's rs[:k]
Slice(rs, k) ==
    IF k >= 0 THEN SubSeq(rs, 1, Min(k, Len(rs)))
    ELSE SubSeq(rs, 1, Max(Len(rs) + k, 0))

query_agent_memory(agent_id, query, k, access_shared_knowledge) ==
    LET private_collection_name == _get_collection_name(agent_id, FALSE)
        \* each side's try block: open the collection, then search it
        private_opened == ~open_raises(Store, private_collection_name)
        s1 == IF private_opened
              THEN _get_or_create_collection(Store, private_collection_name) ELSE Store
        shared_opened == access_shared_knowledge /\ ~open_raises(s1, SharedName)
        s2 == IF shared_opened THEN _get_or_create_collection(s1, SharedName) ELSE s1
    IN  IF private_collection_name = ValueError
        THEN /\ last' = [op |-> "query", status |-> Status(TRUE), agent_id |-> agent_id,
                         query |-> query, embed_calls |-> 0, obtained |-> {}]
             /\ UNCHANGED <<cache, db, paths, live, ids, failing>>
        ELSE /\ \E private_docs \in
                    IF private_opened
                    THEN similarity_search_with_score(s1.db[private_collection_name], query, k)
                    ELSE {<<>>} :
                \E shared_docs \in
                    IF shared_opened
                    THEN similarity_search_with_score(s2.db[SharedName], query, k)
                    ELSE {<<>>} :
                  LET all_results == SortByScore(
                          Tagged(private_docs, query, "private_memory")
                          \o Tagged(shared_docs, query, "shared_knowledge"))
                      unique_results == Deduplicate(all_results, {})
                      top_results == Slice(unique_results, k)
                  IN  last' = [op |-> "query", status |-> Status(FALSE),
                               agent_id |-> agent_id, query |-> query, k |-> k,
                               access_shared_knowledge |-> access_shared_knowledge,
                               all_results |-> all_results,
                               unique_results |-> unique_results,
                               retrieved_documents |-> top_results,
                               embed_calls |-> (IF private_opened THEN 1 ELSE 0)
                                               + (IF shared_opened THEN 1 ELSE 0),
                               obtained |->
                                   (IF private_opened
                                    THEN {<<private_collection_name,
                                            s2.cache[private_collection_name]>>} ELSE {})
                                   \cup IF shared_opened
                                        THEN {<<SharedName, s2.cache[SharedName]>>} ELSE {}]
             /\ cache' = s2.cache
             /\ db' = s2.db
             /\ paths' = s2.paths
             /\ live' = s2.live
             /\ UNCHANGED <<ids, failing>>

Query ==
    /\ \E agent_id \in Agents, query \in Queries, k \in Ks,
          access_shared_knowledge \in BOOLEAN :
         query_agent_memory(agent_id, query, k, access_shared_knowledge)
    /\ UNCHANGED <<loop_vars, manager_vars>>

\* -------------------------------------------------------- specification
Next == Ingest \/ Query \/ Delete

Spec == Init /\ [][Next]_vars

\* ------------------------------------------------- queries on a filled store
\* The store after agent "a" has ingested, as report r1 each time, the
\* one-chunk contents private_texts into its private memory and shared_texts
\* into the shared knowledge; calls are then studied on their own.
Ingested(texts, is_shared_knowledge, first_id) ==
    [i \in 1..Len(texts) |->
        [id |-> first_id + i,
         content |-> texts[i],
         agent_id |-> "a",
         report_id |-> "r1",
         chunk_index |-> 0,
         total_chunks |-> 1,
         is_shared_knowledge |-> is_shared_knowledge]]

StoredTexts == UNION {[1..n -> Texts] : n \in 0..MaxStored}

Filled(private_texts, shared_texts) ==
    LET private_name == _get_collection_name("a", FALSE)
        opened == {private_name, SharedName}
    IN  /\ db = [n \in opened |->
                    IF n = SharedName
                    THEN Ingested(shared_texts, TRUE, Len(private_texts))
                    ELSE Ingested(private_texts, FALSE, 0)]
        /\ cache = [n \in opened |-> Handle(n)]
        /\ paths = ChromaFiles
        /\ live = [n \in Names |-> IF n \in opened THEN 1 ELSE 0]
        /\ ids = Len(private_texts) + Len(shared_texts)
        /\ last = [op |-> "init"]
        /\ Elsewhere

InitQuery ==
    \E private_texts \in StoredTexts, shared_texts \in StoredTexts :
        Filled(private_texts, shared_texts) /\ failing = "none"

\* one query on each such store; sequences of calls are those of Spec
NextQuery == last.op = "init" /\ Query

SpecQuery == InitQuery /\ [][NextQuery]_vars

\* ------------------------------------------- one call while a step fails
\* A smaller filled store, with or without a failing external step, and one
\* call of any method on it.
HeldTexts == UNION {[1..n -> Texts] : n \in 0..MaxHeld}

InitFault ==
    \E private_texts \in HeldTexts, shared_texts \in HeldTexts,
       f \in {"none"} \cup Failures :
        Filled(private_texts, shared_texts) /\ failing = f

NextFault == last.op = "init" /\ (Ingest \/ Query \/ Delete)

SpecFault == InitFault /\ [][NextFault]_vars

\* ------------------------------------------------- ingestion on its own
\* Reports of several windows and several report ids, ingested one after
\* the other into an empty store.
NextIngest == IngestReport

SpecIngest == Init /\ [][NextIngest]_vars

\* ------------------------------------- ingestion, restart and the next query
\* the process stops and a new one starts on the same persist_directory:
\* the new AgentVectorStore has an empty cache, the database is as it was
Restart ==
    /\ cache' = <<>>
    /\ live' = [n \in Names |-> 0]
    /\ last' = [op |-> "restart", before |-> last]
    /\ UNCHANGED <<db, paths, ids, failing, loop_vars, manager_vars>>

\* one ingestion into an empty store, then a query, with or without a
\* restart of the process in between
NextRestart ==
    \/ last.op = "init" /\ IngestReport
    \/ last.op = "ingest" /\ Restart
    \/ last.op \in {"ingest", "restart"} /\ Query

SpecRestart == Init /\ [][NextRestart]_vars

\* ---------------------------------------------------------- the event loop
\* The routes are coroutines of one asyncio event loop, which has one
\* thread.  A route awaits ingest_report or query_agent_memory; these call
\* the embedding function and the index directly, with no await and no
\* executor, so once the loop's thread has entered one of them it stays in
\* it until it returns.
\* the requests: shared is is_shared_knowledge of an ingestion and
\* access_shared_knowledge of a query; text is the report's one window or
\* the query text
Requests == [op : {"ingest", "query"}, agent_id : {"a", "b"},
             text : {1}, k : {1}, shared : {FALSE}]

\* a request arrives and its route's coroutine is scheduled on the loop
Accept ==
    /\ \E request \in Requests \ (waiting \cup {loop}) : waiting' = waiting \cup {request}
    /\ UNCHANGED <<cache, db, paths, live, ids, failing, last, loop, manager_vars>>

\* the idle loop runs a scheduled coroutine, which enters the store's method
\* and its embedding call
Start ==
    /\ loop = Idle
    /\ \E request \in waiting :
         /\ loop' = request
         /\ waiting' = waiting \ {request}
    /\ UNCHANGED <<cache, db, paths, live, ids, failing, last, manager_vars>>

\* the method that the loop's thread is in returns, and the loop is free
Finish ==
    /\ loop # Idle
    /\ IF loop.op = "ingest"
       THEN ingest_report(loop.agent_id, "r1", <<loop.text>>, loop.shared, {})
       ELSE query_agent_memory(loop.agent_id, loop.text, loop.k, loop.shared)
    /\ loop' = Idle
    /\ UNCHANGED <<waiting, manager_vars>>

NextLoop == Accept \/ Start \/ Finish

SpecLoop == Init /\ [][NextLoop]_vars

\* ------------------------------------------- queries after re-ingestion
\* The store after agent a's private reports were each ingested twice (every
\* chunk has a second copy under another id), and one query on it.
InitTwice ==
    \E private_texts \in StoredTexts, shared_texts \in HeldTexts :
        Filled(private_texts \o private_texts, shared_texts) /\ failing = "none"

SpecTwice == InitTwice /\ [][NextQuery]_vars

\* ------------------------------------------------------ the cache manager
\* (backend/app/cache/redis_manager.py)
\* A Python value is <<type, text>>.  The text of a str is the string
\* itself; the text of any other value is its JSON text.
None == <<"NoneType", "null">>
Values == {None, <<"int", "0">>, <<"int", "1">>, <<"list", "[1]">>,
           <<"str", "abc">>, <<"str", "1">>, <<"str", "\"abc\"">>}
CacheKeys == {"k1", "k2"}
\* REDIS_URL: not set, a Redis URL, a Redis URL whose port is not a number
RedisUrls == {"", "redis://localhost:6379", "redis://localhost:redis"}

\* json.dumps of a value that is not a str
json_dumps(value) == value[2]

\* json.loads of a stored text: the value it denotes, or JSONDecodeError
JSONDecodeError == <<"JSONDecodeError", "">>
json_loads(text) ==
    IF text = "null" THEN None
    ELSE IF text \in {"0", "1"} THEN <<"int", text>>
    ELSE IF text = "[1]" THEN <<"list", text>>
    ELSE IF text = "\"abc\"" THEN <<"str", "abc">>
    ELSE JSONDecodeError

\* the exception classes that the names of the except clauses denote;
\* json.JSONEncodeError is not among them: the json module has no such name
ExceptionNames == {"RedisConnectionError", "RedisError", "TypeError", "ValueError"}

isinstance(e, name) ==
    e = name \/ (e = "RedisConnectionError" /\ name = "RedisError")

\* `try: <raises e>  except (names): <handled>`: the exception that leaves
\* the statement, "none" when e is handled.  The tuple of names is evaluated
\* when an exception reaches the clause, and a name that does not exist
\* raises AttributeError there
except_(e, names) ==
    IF e = "none" THEN "none"
    ELSE IF \E name \in names : name \notin ExceptionNames THEN "AttributeError"
    ELSE IF \E name \in names : isinstance(e, name) THEN "none"
    ELSE e

\* what a call of the Redis client raises
client_raises == IF redis_up THEN "none" ELSE "RedisConnectionError"

\* CacheManager(redis_url): the constructor
CacheManager(REDIS_AVAILABLE, redis_url) ==
    LET attempted == REDIS_AVAILABLE /\ redis_url # ""
        \* redis.from_url raises ValueError for a URL that it cannot parse
        raised == IF ~attempted THEN "none"
                  ELSE IF redis_url # "redis://localhost:6379" THEN "ValueError"
                  ELSE client_raises
        escaped == except_(raised, {"RedisConnectionError", "RedisError"})
    IN  /\ _enabled' = (attempted /\ raised = "none")
        /\ last' = [op |-> "CacheManager", raised |-> escaped,
                    is_enabled |-> (attempted /\ raised = "none"),
                    pinged |-> (attempted /\ raised = "none" /\ redis_up)]
        /\ UNCHANGED <<redis_db, redis_up>>

\* CacheManager.get: the value it returns
get(key) ==
    IF ~_enabled THEN None
    ELSE IF client_raises # "none" THEN None
    ELSE IF key \notin DOMAIN redis_db THEN None
    ELSE IF json_loads(redis_db[key]) = JSONDecodeError THEN <<"str", redis_db[key]>>
    ELSE json_loads(redis_db[key])

\* CacheManager.set: whether it returned True, the exception that left it,
\* and the server's data after it
set(key, value) ==
    LET text == IF value[1] = "str" THEN value[2] ELSE json_dumps(value)
        escaped == except_(client_raises, {"RedisConnectionError", "RedisError",
                                           "TypeError", "json.JSONEncodeError"})
    IN  IF ~_enabled THEN [ok |-> FALSE, raised |-> "none", data |-> redis_db]
        ELSE IF client_raises # "none"
             THEN [ok |-> FALSE, raised |-> escaped, data |-> redis_db]
        ELSE [ok |-> TRUE, raised |-> "none", data |-> Put(redis_db, key, text)]

\* the outcome of delete, exists and clear, whose try blocks are alike:
\* answer is what the call returns when the client does not raise
Guarded(answer, data) ==
    LET escaped == except_(client_raises, {"RedisConnectionError", "RedisError"})
    IN  IF ~_enabled THEN [ok |-> FALSE, raised |-> "none", data |-> redis_db]
        ELSE IF client_raises # "none"
             THEN [ok |-> FALSE, raised |-> escaped, data |-> redis_db]
        ELSE [ok |-> answer, raised |-> "none", data |-> data]

delete(key) == Guarded(TRUE, Del(redis_db, key))
exists(key) == Guarded(key \in DOMAIN redis_db, redis_db)
clear == Guarded(TRUE, <<>>)

\* the record of a call of the manager: whether the manager was enabled and
\* whether the backend failed during the call
Called(op, key, outcome) ==
    [op |-> op, key |-> key, ok |-> outcome.ok, raised |-> outcome.raised,
     enabled |-> _enabled, backend_failed |-> (_enabled /\ ~redis_up),
     touched |-> (_enabled /\ redis_up)]

Construct ==
    /\ \E REDIS_AVAILABLE \in BOOLEAN, redis_url \in RedisUrls :
         CacheManager(REDIS_AVAILABLE, redis_url)
    /\ UNCHANGED <<cache, db, paths, live, ids, failing, loop_vars>>

Get ==
    /\ \E key \in CacheKeys :
         last' = [op |-> "get", key |-> key, value |-> get(key),
                  raised |-> IF _enabled
                             THEN except_(client_raises,
                                          {"RedisConnectionError", "RedisError"})
                             ELSE "none",
                  enabled |-> _enabled, backend_failed |-> (_enabled /\ ~redis_up)]
    /\ UNCHANGED <<cache, db, paths, live, ids, failing, loop_vars, manager_vars>>

Set ==
    /\ \E key \in CacheKeys, value \in Values :
         /\ redis_db' = set(key, value).data
         /\ last' = Called("set", key, set(key, value)) @@ [value |-> value]
    /\ UNCHANGED <<cache, db, paths, live, ids, failing, loop_vars, _enabled, redis_up>>

Remove ==
    /\ \E key \in CacheKeys :
         \E call \in {<<"delete", delete(key)>>, <<"exists", exists(key)>>,
                       <<"clear", clear>>} :
             /\ redis_db' = call[2].data
             /\ last' = Called(call[1], key, call[2])
    /\ UNCHANGED <<cache, db, paths, live, ids, failing, loop_vars, _enabled, redis_up>>

\* a wrapper that tests the cached value for truth
IsHit_truthy(cached_value) == cached_value \notin {None, <<"int", "0">>}

\* `if cached_value is not None`
IsHit(cached_value) == cached_value # None

\* a call of a function wrapped with cache_result, whose cache key is key
\* and which returns result when it is called
cache_result(key, result) ==
    LET cached_value == get(key)
        written == set(key, result)
    IN  IF IsHit(cached_value)
        THEN /\ last' = [op |-> "cached", key |-> key, cached_value |-> cached_value,
                         func_calls |-> 0, set_calls |-> 0, set_key |-> key,
                         returned |-> cached_value, raised |-> "none"]
             /\ UNCHANGED redis_db
        ELSE /\ last' = [op |-> "cached", key |-> key, cached_value |-> cached_value,
                         func_calls |-> 1, set_calls |-> 1, set_key |-> key,
                         returned |-> result, raised |-> written.raised]
             /\ redis_db' = written.data

Cached ==
    /\ \E key \in CacheKeys, result \in Values : cache_result(key, result)
    /\ UNCHANGED <<cache, db, paths, live, ids, failing, loop_vars, _enabled, redis_up>>

\* the Redis server stops answering, or answers again
Outage ==
    /\ redis_up' = ~redis_up
    /\ UNCHANGED <<cache, db, paths, live, ids, failing, last, loop_vars,
                   _enabled, redis_db>>

NextCache == Construct \/ Get \/ Set \/ Remove \/ Cached \/ Outage

SpecCache == Init /\ [][NextCache]_vars

\* ----------------------------------------------- the shared-only endpoint
\* (backend/app/rag_routes.py)  POST /api/knowledge/shared/query
query_shared_knowledge(query, k) ==
    query_agent_memory(Placeholder, query, k, TRUE)

QueryShared ==
    /\ \E query \in Queries, k \in 1..MaxK : query_shared_knowledge(query, k)
    /\ UNCHANGED <<loop_vars, manager_vars>>

\* ingestion under any agent id, the placeholder's included
IngestAs ==
    /\ \E agent_id \in {"a", Placeholder}, report_content \in Contents,
          is_shared_knowledge \in BOOLEAN :
         ingest_report(agent_id, "r1", report_content, is_shared_knowledge, {})
    /\ UNCHANGED <<loop_vars, manager_vars>>

NextShared == IngestAs \/ QueryShared

SpecShared == Init /\ [][NextShared]_vars

\* ================================================================ claims
Range(seq) == {seq[i] : i \in 1..Len(seq)}

\* the last call was a query that returned status success
QueryOk == last.op = "query" /\ last.status = "success"

\* the documents stored in a collection, none when it does not exist
Stored(collection_name) ==
    IF collection_name \in DOMAIN db THEN Range(db[collection_name]) ELSE {}

\* C1 (Isolation): a successful query made as agent B without shared access
\* never returns a chunk that another agent A ingested privately, for any
\* query text and any k; and no private collection holds a chunk of an agent
\* other than its owner.
C1_Isolation ==
    /\ QueryOk /\ ~last.access_shared_knowledge =>
         \A r \in Range(last.all_results) \cup Range(last.retrieved_documents) :
            ~(r.doc.agent_id # last.agent_id /\ ~r.doc.is_shared_knowledge)
    /\ \A a \in Agents \ {""} :
         \A d \in Stored(_get_collection_name(a, FALSE)) : d.agent_id = a

\* agent B queried without shared access and got a result while another
\* agent's private collection holds chunks
C1_Witness ==
    /\ QueryOk /\ ~last.access_shared_knowledge
    /\ last.retrieved_documents # <<>>
    /\ \E a \in Agents \ {"", last.agent_id} : Stored(_get_collection_name(a, FALSE)) # {}

\* C2 (Deletion): the query that follows a successful delete_agent_memory
\* for the same agent returns no result tagged private_memory, and a
\* delete_agent_memory call leaves the documents of the shared collection
\* as they were.
C2_Deletion ==
    [][/\ (/\ last.op = "delete" /\ last.status = "success"
           /\ last'.op = "query" /\ last'.status = "success"
           /\ last'.agent_id = last.agent_id)
          => \A r \in Range(last'.retrieved_documents) : r.source # "private_memory"
       /\ last'.op = "delete" => Stored(SharedName)' = Stored(SharedName)]_vars

\* C3 (Shared visibility): a chunk ingested as shared knowledge is stored in
\* the shared collection and nowhere else; a successful query without shared
\* access returns no such chunk; and a successful query with shared access,
\* whoever the agent, has every chunk of the shared collection among its
\* candidates when k is at least the size of that collection.
C3_SharedVisibility ==
    /\ \A n \in DOMAIN db : \A d \in Range(db[n]) :
         d.is_shared_knowledge <=> n = SharedName
    /\ QueryOk /\ ~last.access_shared_knowledge =>
         \A r \in Range(last.all_results) :
            ~r.doc.is_shared_knowledge /\ r.source # "shared_knowledge"
    /\ QueryOk /\ last.access_shared_knowledge /\ last.k >= Cardinality(Stored(SharedName)) =>
         \A d \in Stored(SharedName) :
            \E r \in Range(last.all_results) : r.doc = d /\ r.source = "shared_knowledge"

\* an agent got, tagged shared_knowledge, a chunk that another agent ingested
C3_Witness ==
    /\ QueryOk /\ last.access_shared_knowledge
    /\ \E r \in Range(last.retrieved_documents) :
         r.source = "shared_knowledge" /\ r.doc.agent_id # last.agent_id

C10_PureRead ==
    [][last'.op = "query" => cache' = cache /\ db' = db]_vars

\* the reference deduplication: keep the first result of each text
RECURSIVE FirstOfEachText(_, _)
FirstOfEachText(rs, seen_texts) ==
    IF rs = <<>> THEN <<>>
    ELSE IF rs[1].content \notin seen_texts
         THEN <<rs[1]>> \o FirstOfEachText(Tail(rs), seen_texts \cup {rs[1].content})
         ELSE FirstOfEachText(Tail(rs), seen_texts)

\* C5 (Dedup ordering): when the candidates of a query hold a private and a
\* shared result of identical text, the deduplicated list holds exactly one
\* result of that text, and its score is not above that of either copy.
C5_DedupOrdering ==
    QueryOk =>
      \A p, s \in Range(last.all_results) :
        (p.source = "private_memory" /\ s.source = "shared_knowledge"
            /\ p.content = s.content) =>
          LET kept == {i \in 1..Len(last.unique_results) :
                          last.unique_results[i].content = p.content}
          IN  /\ Cardinality(kept) = 1
              /\ \A i \in kept : /\ last.unique_results[i].score <= p.score
                                 /\ last.unique_results[i].score <= s.score

\* C6 (Dedup by exact text): the deduplicated list is the sorted candidate
\* list with, for every text, all results but the first of that text
\* removed; results of different text never remove each other.
C6_ExactTextDedup ==
    QueryOk => last.unique_results = FirstOfEachText(last.all_results, {})

\* C7 (Ranking): the candidates and the retrieved documents of a successful
\* query are in non-decreasing order of score, whatever their source.
C7_SortedByScore ==
    QueryOk =>
      /\ \A i, j \in 1..Len(last.all_results) :
           i < j => last.all_results[i].score <= last.all_results[j].score
      /\ \A i, j \in 1..Len(last.retrieved_documents) :
           i < j => last.retrieved_documents[i].score <= last.retrieved_documents[j].score

\* a shared result ranked before a private one because its score is lower
C7_Witness ==
    /\ QueryOk
    /\ \E i, j \in 1..Len(last.retrieved_documents) :
         /\ i < j
         /\ last.retrieved_documents[i].source = "shared_knowledge"
         /\ last.retrieved_documents[j].source = "private_memory"
         /\ last.retrieved_documents[i].score < last.retrieved_documents[j].score

\* C8 (Top k): a successful query returns at most k documents, and they are
\* the first k entries of the deduplicated list.
C8_TopK ==
    QueryOk =>
      /\ Len(last.retrieved_documents) <= last.k
      /\ last.retrieved_documents =
           SubSeq(last.unique_results, 1, Min(last.k, Len(last.unique_results)))

\* C9 (One embedding): a successful query embeds its query text exactly once.
C9_EmbedOnce ==
    QueryOk => last.embed_calls = 1

\* the last call was an ingestion that returned status success
IngestOk == last.op = "ingest" /\ last.status = "success"

\* the documents of any collection whose id is one of doc_ids
Remaining(doc_ids) ==
    {d \in UNION {Range(db[n]) : n \in DOMAIN db} : d.id \in doc_ids}

\* C11 (Embedding failure): an ingest_report or query_agent_memory call
\* with valid arguments during which the embedding function is called and
\* fails returns status error, never status success.
C11_EmbeddingFailure ==
    (/\ last.op \in {"ingest", "query"}
     /\ failing = "embedding" /\ last.embed_calls > 0
     /\ (last.op = "query" /\ last.status = "success") => last.k >= 1)
        => last.status = "error"

\* C12 (Invalid arguments): a query with an empty agent_id or a k below 1,
\* and an ingestion with an empty agent_id for private memory or an empty
\* text, return status error without any call of the embedding function.
C12_RejectedBeforeEmbedding ==
    /\ last.op = "query" =>
         /\ last.agent_id = "" => last.status = "error" /\ last.embed_calls = 0
         /\ last.status = "success" => last.k >= 1
    /\ last.op = "ingest" =>
         (((last.agent_id = "" /\ ~last.is_shared_knowledge) \/ last.windows = 0)
             => last.status = "error" /\ last.embed_calls = 0)

C14_IngestedVisible ==
    [][/\ (last'.op = "ingest" /\ last'.status = "success") =>
            LET target == _get_collection_name(last'.agent_id, last'.is_shared_knowledge)
            IN  /\ Cardinality(last'.doc_ids) = last'.chunks_ingested
                /\ \A i \in last'.doc_ids :
                     Cardinality({j \in 1..Len(db'[target]) : db'[target][j].id = i}) = 1
       /\ (/\ IngestOk
           /\ last'.op = "query" /\ last'.status = "success"
           /\ IF last.is_shared_knowledge THEN last'.access_shared_knowledge
              ELSE last'.agent_id = last.agent_id
           /\ last'.k >= Cardinality(Stored(_get_collection_name(last.agent_id,
                                                                 last.is_shared_knowledge))))
          => \A i \in last.doc_ids :
                \E r \in Range(last'.all_results) :
                    /\ r.doc.id = i
                    /\ r.source = IF last.is_shared_knowledge
                                  THEN "shared_knowledge" ELSE "private_memory"]_vars

\* an ingestion of a report of two chunks returned success
C14_Witness ==
    /\ IngestOk /\ last.chunks_ingested = 2
    /\ Cardinality(Remaining(last.doc_ids)) = 2

\* C15, as stated (Failed write leaves nothing): an ingestion during which
\* the write to the index or the persist step fails returns status error
\* with no chunk reported as ingested, and no document of that call is in
\* any collection afterwards.
C15_NoChunkRemains ==
    (last.op = "ingest" /\ failing \in {"write", "persist"} /\ last.embed_calls > 0) =>
        /\ last.status = "error" /\ last.chunks_ingested = 0
        /\ Remaining(last.doc_ids) = {}

\* C15, amended (Failed write is reported): an ingestion during which the
\* write to the index or the persist step fails returns status error with
\* no chunk reported as ingested; the documents it had written stay in the
\* target collection, and in no other.
C15_FailedWriteReported ==
    (last.op = "ingest" /\ failing \in {"write", "persist"} /\ last.embed_calls > 0) =>
        /\ last.status = "error" /\ last.chunks_ingested = 0
        /\ Remaining(last.doc_ids)
             \subseteq Stored(_get_collection_name(last.agent_id, last.is_shared_knowledge))

\* the persist step failed and the chunk written before it is still stored
C15_Witness ==
    /\ last.op = "ingest" /\ failing = "persist" /\ last.status = "error"
    /\ Remaining(last.doc_ids) # {}

C17_ChunkIndexes ==
    \A n \in DOMAIN db : \A report_id \in ReportIds :
        LET of_report == {j \in 1..Len(db[n]) : db[n][j].report_id = report_id}
        IN  /\ \A j \in of_report : db[n][j].total_chunks = Cardinality(of_report)
            /\ {db[n][j].chunk_index : j \in of_report} = 0..(Cardinality(of_report) - 1)

C19_AbsentCollection ==
    [][(/\ last'.op \in {"delete", "query"}
        /\ last'.agent_id # ""
        /\ _get_collection_name(last'.agent_id, FALSE) \notin DOMAIN db)
       => /\ last'.status = "success"
          /\ last'.op = "delete" =>
                cache' = cache /\ db' = db /\ paths' = paths /\ live' = live
          /\ last'.op = "query" =>
                \A r \in Range(last'.all_results) : r.source # "private_memory"]_vars

\* a deletion for an agent that never had a private collection succeeded
C19_Witness ==
    /\ last.op = "delete" /\ last.status = "success"
    /\ _get_collection_name(last.agent_id, FALSE) \notin DOMAIN db

\* C20 (Deletion frame): a delete_agent_memory call, whatever its agent_id,
\* leaves the shared collection, its documents and its cached handle as they
\* were; and a private collection or its cached handle goes away only in a
\* delete_agent_memory call for the agent it belongs to.
C20_DeleteFrame ==
    [][/\ last'.op = "delete" =>
            /\ (SharedName \in DOMAIN db) = (SharedName \in DOMAIN db')
            /\ SharedName \in DOMAIN db => db'[SharedName] = db[SharedName]
            /\ (SharedName \in DOMAIN cache) = (SharedName \in DOMAIN cache')
            /\ SharedName \in DOMAIN cache => cache'[SharedName] = cache[SharedName]
            /\ live'[SharedName] = live[SharedName]
       /\ \A a \in Agents \ {""} :
            LET n == _get_collection_name(a, FALSE)
            IN  (\/ n \in DOMAIN db /\ n \notin DOMAIN db'
                 \/ n \in DOMAIN cache /\ n \notin DOMAIN cache')
                => last'.op = "delete" /\ last'.agent_id = a]_vars

\* a deletion succeeded while the shared collection was cached and held
\* documents, and they are all still there
C20_Witness ==
    /\ last.op = "delete" /\ last.status = "success"
    /\ SharedName \in DOMAIN cache
    /\ Stored(SharedName) # {}

\* C21 (Off the event loop): while the method of one request is in its
\* embedding or index call, a request that is waiting can be started.
C21_OffTheLoop ==
    (loop # Idle /\ waiting # {}) => ENABLED Start

\* C22 (Fresh ids): a successful ingestion gives its chunks pairwise distinct
\* ids that no stored document has, leaves every document already in the
\* target collection in place, and adds its n chunks after them, so that
\* the collection holds n more chunks of that report_id than before: 2n
\* after two successful ingestions of the same report.
C22_FreshIds ==
    [][(last'.op = "ingest" /\ last'.status = "success") =>
          LET target == _get_collection_name(last'.agent_id, last'.is_shared_knowledge)
              before == IF target \in DOMAIN db THEN db[target] ELSE <<>>
              OfReport(docs) == {j \in 1..Len(docs) : docs[j].report_id = last'.report_id}
          IN  /\ Cardinality(last'.doc_ids) = last'.chunks_ingested
              /\ \A n \in DOMAIN db : \A d \in Range(db[n]) : d.id \notin last'.doc_ids
              /\ SubSeq(db'[target], 1, Len(before)) = before
              /\ Len(db'[target]) = Len(before) + last'.chunks_ingested
              /\ Cardinality(OfReport(db'[target]))
                   = Cardinality(OfReport(before)) + last'.chunks_ingested]_vars

\* the same one-chunk report was ingested twice: its collection holds two
\* chunks of that report_id with the same text and different ids
C22_Witness ==
    /\ IngestOk /\ last.chunks_ingested = 1
    /\ \E d, e \in Stored(_get_collection_name(last.agent_id, last.is_shared_knowledge)) :
         /\ d.id # e.id /\ e.id \in last.doc_ids
         /\ d.report_id = last.report_id /\ e.report_id = last.report_id
         /\ d.content = e.content /\ d.chunk_index = e.chunk_index

\* C23 (Cache-aside): a call of a function wrapped with cache_result that
\* finds a value other than None under its key does not call the function
\* and writes nothing; one that finds None calls the function once and
\* writes its result once, under the same key.
C23_CacheAside ==
    [][last'.op = "cached" =>
          IF last'.cached_value # None
          THEN /\ last'.func_calls = 0
               /\ last'.set_calls = 0
               /\ last'.returned = last'.cached_value
               /\ redis_db' = redis_db
          ELSE /\ last'.func_calls = 1
               /\ last'.set_calls = 1
               /\ last'.set_key = last'.key
               /\ \A key \in CacheKeys \ {last'.key} :
                     /\ (key \in DOMAIN redis_db') = (key \in DOMAIN redis_db)
                     /\ key \in DOMAIN redis_db => redis_db'[key] = redis_db[key]]_vars

\* the cached value was the integer 0, and the function was not called
C23_Witness ==
    /\ last.op = "cached"
    /\ last.cached_value = <<"int", "0">>
    /\ last.func_calls = 0
    /\ last.returned = <<"int", "0">>

\* C24 (Constructor never raises): constructing a CacheManager raises
\* nothing, and the manager is enabled only after a successful ping.
C24_ConstructorNeverRaises ==
    last.op = "CacheManager" =>
        /\ last.raised = "none"
        /\ last.is_enabled => last.pinged

\* C25 (No backend failure propagates): no operation of the manager raises;
\* when the backend fails or the manager is disabled, get returns None and
\* set, delete, exists and clear return False, and a disabled manager does
\* not touch the backend.
C25_NoFailurePropagates ==
    /\ last.op = "get" =>
          /\ last.raised = "none"
          /\ (last.backend_failed \/ ~last.enabled) => last.value = None
    /\ last.op \in {"set", "delete", "exists", "clear"} =>
          /\ last.raised = "none"
          /\ (last.backend_failed \/ ~last.enabled) => ~last.ok
          /\ ~last.enabled => ~last.touched

\* C30 (Cache round trip): on an enabled manager whose backend answers, a
\* get that follows a successful set of the same key returns the value set.
C30_RoundTrip ==
    [][(/\ last.op = "set" /\ last.ok
        /\ _enabled /\ redis_up
        /\ last'.op = "get" /\ last'.key = last.key) =>
          last'.value = last.value]_vars

\* C26 (Shared-only endpoint): a successful query of the shared-only
\* endpoint returns only results tagged shared_knowledge, which come from
\* the shared collection, and the placeholder's private collection never
\* holds a chunk.
C26_SharedOnly ==
    /\ (QueryOk /\ last.agent_id = Placeholder) =>
          \A r \in Range(last.all_results) \cup Range(last.retrieved_documents) :
             /\ r.source = "shared_knowledge"
             /\ r.doc \in Stored(SharedName)
    /\ Stored(_get_collection_name(Placeholder, FALSE)) = {}

\* the shared-only endpoint returned a shared chunk while an agent's private
\* collection holds a chunk
C26_Witness ==
    /\ QueryOk /\ last.agent_id = Placeholder
    /\ last.retrieved_documents # <<>>
    /\ Stored(_get_collection_name("a", FALSE)) # {}

\* C27 (Metadata integrity): every chunk stored by a successful ingestion
\* carries the agent_id, report_id and is_shared_knowledge of the call, the
\* number of chunks of the call as total_chunks and its own position as
\* chunk_index, whatever metadata the caller supplied.
C27_MetadataIntegrity ==
    IngestOk =>
        \A d \in Remaining(last.doc_ids) :
            /\ d.agent_id = last.agent_id
            /\ d.report_id = last.report_id
            /\ d.is_shared_knowledge = last.is_shared_knowledge
            /\ d.total_chunks = last.chunks_ingested
            /\ d.chunk_index \in 0..(last.chunks_ingested - 1)

\* the chunk texts of the collections that the last query searched
SearchedTexts ==
    {d.content : d \in Stored(_get_collection_name(last.agent_id, FALSE))
                       \cup IF last.access_shared_knowledge
                            THEN Stored(SharedName) ELSE {}}

\* C28 (Result count): a successful query with k >= 1 returns exactly
\* min(k, D) results, D being the number of distinct chunk texts in the
\* collections searched (texts that differ having different hashes).
C28_ResultCount ==
    (/\ QueryOk /\ last.k >= 1
     /\ \A t, u \in SearchedTexts : t # u => hash(t) # hash(u)) =>
        Len(last.retrieved_documents) = Min(last.k, Cardinality(SearchedTexts))

\* C29 (Deletion is scoped): after a successful delete_agent_memory(A) the
\* cache has no entry for A's private collection, and the cached handle and
\* the stored chunks of every other agent's private collection are as they
\* were before the call.
C29_DeleteScoped ==
    [][(last'.op = "delete" /\ last'.status = "success") =>
          /\ _get_collection_name(last'.agent_id, FALSE) \notin DOMAIN cache'
          /\ \A b \in Agents \ {"", last'.agent_id} :
                LET n == _get_collection_name(b, FALSE)
                IN  /\ (n \in DOMAIN cache') = (n \in DOMAIN cache)
                    /\ n \in DOMAIN cache => cache'[n] = cache[n]
                    /\ live'[n] = live[n]
                    /\ (n \in DOMAIN db') = (n \in DOMAIN db)
                    /\ n \in DOMAIN db => db'[n] = db[n]]_vars

\* agent a's memory was deleted after it had been filled, while agent b's
\* private collection is cached and holds a chunk
C29_Witness ==
    /\ last.op = "delete" /\ last.status = "success" /\ last.agent_id = "a"
    /\ Stored(_get_collection_name("a", FALSE)) # {}
    /\ _get_collection_name("a", FALSE) \notin DOMAIN cache
    /\ _get_collection_name("b", FALSE) \in DOMAIN cache
    /\ Stored(_get_collection_name("b", FALSE)) # {}

====
